---- MODULE Spec2Model ----
(***************************************************************************)
(* A model of pngFS (src/pngFS.py): an in-memory FUSE filesystem whose     *)
(* inode table is pickled into a PNG file by a debounced timer and at      *)
(* shutdown.                                                               *)
(*                                                                         *)
(* A File is a record with the slots of class File.  A Python dict is a    *)
(* sequence in insertion order: FS.files is the sequence of its File       *)
(* values (the key of a value is its inode slot, as add_file keeps it), a  *)
(* directory's content is a sequence of <<name, inode>> pairs.  A regular  *)
(* file's content is a sequence of bytes.                                  *)
(***************************************************************************)
EXTENDS Integers, Sequences, FiniteSets, TLC

\* ---------------------------------------------------------------- bounds
MaxInode == 3           \* mkdir/create are not issued once inodes_created exceeds it
MaxLen   == 2           \* longest regular-file content
MaxBurst == 2           \* the count of armings of one burst saturates here

\* ------------------------------------------------------ program constants
ROOT_INODE == 1         \* pyfuse3.ROOT_INODE
Delay      == 2         \* args.delay, default
PickleProtocol == 4     \* pickle.dumps(self.files, 4)

Names     == {"a", "b"}
RootName  == ".."
Bytes     == {7, 8}
InodeArgs == 0 .. (MaxInode + 1)
\* the calls issued while the whole life of the process is followed
LifeNames  == {"a"}
LifeInodes == 0 .. (ROOT_INODE + 1)
Offsets   == 0 .. MaxLen
Lengths   == 0 .. MaxLen
Buffers   == UNION {[1 .. n -> Bytes] : n \in 0 .. MaxLen}
\* the writes issued where the table, not the bytes, is followed
\* how many entries the reply buffer of one readdir holds
Rooms     == 1 .. (MaxInode - 1)
LifeOffsets == {0}
LifeBuffers == {<<7>>}

VARIABLES
    pc,              \* "start" | "serving" | "crashed" | "exited": where main() is
    files,           \* pngfs.files.files: the inode table, a dict in insertion order
    inodes_created,  \* pngfs.files.inodes_created
    task,            \* write_timer._task: "None" | "pending" | "cancelled"
    loop,            \* remaining delays of the _run tasks alive in the event loop
    save_at_exit,    \* args.save_at_exit
    disk,            \* the backing PNG file: [kind, blob]
    exc,             \* the exception that ended the process, with its source line
    loadExc,         \* the exception raised inside the try of pngFS.__init__
    ret,             \* outcome of the last handler call: [err, val, data, entries]
    lastGiven,       \* the inode number add_file assigned last (0: none yet)
    arms,            \* start() calls of the current burst (saturating)
    fired            \* write_to_png calls made by the timer for the current burst

vars == <<pc, files, inodes_created, task, loop, save_at_exit, disk, exc,
          loadExc, ret, lastGiven, arms, fired>>

\* ------------------------------------------------------------ Python dict
Min(a, b) == IF a < b THEN a ELSE b

RemoveAt(s, i) == [j \in 1 .. (Len(s) - 1) |-> IF j < i THEN s[j] ELSE s[j + 1]]

\* FS.files, keyed by inode
Keys(fs) == {fs[i].inode : i \in DOMAIN fs}

Has(fs, ino) == \E i \in DOMAIN fs : fs[i].inode = ino

Idx(fs, ino) == CHOOSE i \in DOMAIN fs : fs[i].inode = ino

Get(fs, ino) == fs[Idx(fs, ino)]

DictSet(fs, file) ==
    IF Has(fs, file.inode) THEN [fs EXCEPT ![Idx(fs, file.inode)] = file]
    ELSE Append(fs, file)

DictDel(fs, ino) == RemoveAt(fs, Idx(fs, ino))

\* a directory's content, keyed by name
CHas(c, name) == \E i \in DOMAIN c : c[i][1] = name

CIdx(c, name) == CHOOSE i \in DOMAIN c : c[i][1] = name

CGet(c, name) == c[CIdx(c, name)][2]

CSet(c, name, ino) ==
    IF CHas(c, name) THEN [c EXCEPT ![CIdx(c, name)] = <<name, ino>>]
    ELSE Append(c, <<name, ino>>)

CDel(c, name) == RemoveAt(c, CIdx(c, name))

SetContent(fs, ino, c) == [fs EXCEPT ![Idx(fs, ino)].content = c]

\* ------------------------------------------------------------------ File
File(name, parent_inode, content, is_dir) ==
    [name |-> name, inode |-> 0, parent |-> parent_inode, is_dir |-> is_dir,
     content |-> IF is_dir THEN <<>> ELSE content,
     size |-> IF is_dir THEN 0 ELSE Len(content)]

\* -------------------------------------------------------------------- FS
\* add_file registers the file first, then links it into its parent, then
\* advances the counter; an exception leaves what was done before it.
add_file(fs, cnt, file) ==
    LET f1  == [file EXCEPT !.inode = cnt]
        fs1 == DictSet(fs, f1)
    IN  IF file.parent = 0
        THEN [files |-> fs1, inodes_created |-> cnt + 1, err |-> "OK"]
        ELSE IF ~Has(fs1, file.parent)
        THEN [files |-> fs1, inodes_created |-> cnt, err |-> "KeyError"]
        ELSE IF ~Get(fs1, file.parent).is_dir
        THEN [files |-> fs1, inodes_created |-> cnt, err |-> "TypeError"]
        ELSE [files |-> SetContent(fs1, file.parent,
                          CSet(Get(fs1, file.parent).content, file.name, cnt)),
              inodes_created |-> cnt + 1, err |-> "OK"]

FS_init == add_file(<<>>, ROOT_INODE, File(RootName, 0, <<>>, TRUE))

RECURSIVE CleanPassRootToo(_, _)
\* CleanPass without the test that spares the root
CleanPassRootToo(snapshot, fs) ==
    IF snapshot = <<>> THEN fs
    ELSE LET file == Head(snapshot)
         IN  IF ~Has(fs, file.parent)
             THEN CleanPassRootToo(Tail(snapshot), DictDel(fs, file.inode))
             ELSE CleanPassRootToo(Tail(snapshot), fs)

\* CleanPass testing each parent against the table as it was at the call
CleanPassStale(snapshot, fs) ==
    SelectSeq(snapshot, LAMBDA file : file.inode = ROOT_INODE \/ Has(snapshot, file.parent))

RECURSIVE CleanPass(_, _)
\* the loop of clean_files_without_parent over the snapshot list(items())
CleanPass(snapshot, fs) ==
    IF snapshot = <<>> THEN fs
    ELSE LET file == Head(snapshot)
         IN  IF file.inode # ROOT_INODE /\ ~Has(fs, file.parent)
             THEN CleanPass(Tail(snapshot), DictDel(fs, file.inode))
             ELSE CleanPass(Tail(snapshot), fs)

clean_files_without_parent(fs) == CleanPass(fs, fs)

\* ------------------------------------------------------- SingleShotTimer
SingleShotTimerSlots == {"_callback", "_delay", "_task"}

\* start() without the cancel of the pending task
start_keeps_pending(t, lp) == [task |-> "pending", loop |-> Append(lp, Delay)]

\* start(): cancel the task _task refers to (the newest one), create a new one
start(t, lp) ==
    [task |-> "pending",
     loop |-> Append(IF t # "None" /\ lp # <<>>
                     THEN SubSeq(lp, 1, Len(lp) - 1) ELSE lp, Delay)]

\* ------------------------------------------------------------- handlers
\* Each handler is a function of the table; it yields the table it leaves
\* behind, the error it ends in ("OK" if none) and whether it reached
\* self.write_timer.start().
Outcome(fs, cnt, err, val) ==
    [files |-> fs, inodes_created |-> cnt, err |-> err, val |-> val,
     armed |-> (err = "OK")]

mkdir(fs, cnt, inode_parent, name) ==
    LET r == add_file(fs, cnt, File(name, inode_parent, <<>>, TRUE))
    IN  Outcome(r.files, r.inodes_created, r.err, IF r.err = "OK" THEN cnt ELSE 0)

create(fs, cnt, inode_parent, name) ==
    LET r == add_file(fs, cnt, File(name, inode_parent, <<>>, FALSE))
    IN  Outcome(r.files, r.inodes_created, r.err, IF r.err = "OK" THEN cnt ELSE 0)

\* the splice keeping the old bytes from offset on: an insertion
SpliceInsert(data, offset, buf) ==
    SubSeq(data, 1, Min(offset, Len(data))) \o buf
        \o SubSeq(data, offset + 1, Len(data))

Splice(data, offset, buf) ==
    SubSeq(data, 1, Min(offset, Len(data))) \o buf
        \o SubSeq(data, offset + Len(buf) + 1, Len(data))

write(fs, cnt, inode, offset, buf) ==
    IF ~Has(fs, inode) THEN Outcome(fs, cnt, "ENOENT", 0)
    ELSE IF Get(fs, inode).is_dir THEN Outcome(fs, cnt, "TypeError", 0)
    ELSE LET c == Splice(Get(fs, inode).content, offset, buf)
         IN  Outcome([fs EXCEPT ![Idx(fs, inode)].content = c,
                                ![Idx(fs, inode)].size = Len(c)],
                     cnt, "OK", Len(buf))

\* rmdir without the test of directory.content
rmdir_unchecked(fs, cnt, parent_inode, name) ==
    IF ~Has(fs, parent_inode) THEN Outcome(fs, cnt, "ENOENT", 0)
    ELSE IF ~Get(fs, parent_inode).is_dir THEN Outcome(fs, cnt, "TypeError", 0)
    ELSE IF ~CHas(Get(fs, parent_inode).content, name)
    THEN Outcome(fs, cnt, "KeyError", 0)
    ELSE LET inode == CGet(Get(fs, parent_inode).content, name)
         IN  IF ~Has(fs, inode) THEN Outcome(fs, cnt, "ENOENT", 0)
             ELSE LET fs1 == SetContent(fs, parent_inode,
                                 CDel(Get(fs, parent_inode).content, name))
                  IN  Outcome(DictDel(fs1, inode), cnt, "OK", 0)

rmdir(fs, cnt, parent_inode, name) ==
    IF ~Has(fs, parent_inode) THEN Outcome(fs, cnt, "ENOENT", 0)
    ELSE IF ~Get(fs, parent_inode).is_dir THEN Outcome(fs, cnt, "TypeError", 0)
    ELSE IF ~CHas(Get(fs, parent_inode).content, name)
    THEN Outcome(fs, cnt, "KeyError", 0)
    ELSE LET inode == CGet(Get(fs, parent_inode).content, name)
         IN  IF ~Has(fs, inode) THEN Outcome(fs, cnt, "ENOENT", 0)
             ELSE IF Get(fs, inode).content # <<>>
             THEN Outcome(fs, cnt, "ENOTEMPTY", 0)
             ELSE LET fs1 == SetContent(fs, parent_inode,
                                 CDel(Get(fs, parent_inode).content, name))
                  IN  Outcome(DictDel(fs1, inode), cnt, "OK", 0)

unlink(fs, cnt, parent_inode, name) ==
    IF ~Has(fs, parent_inode) THEN Outcome(fs, cnt, "ENOENT", 0)
    ELSE IF ~Get(fs, parent_inode).is_dir THEN Outcome(fs, cnt, "TypeError", 0)
    ELSE IF ~CHas(Get(fs, parent_inode).content, name)
    THEN Outcome(fs, cnt, "KeyError", 0)
    ELSE LET inode == CGet(Get(fs, parent_inode).content, name)
         IN  IF ~Has(fs, inode) THEN Outcome(fs, cnt, "KeyError", 0)
             ELSE LET fs1 == DictDel(fs, inode)
                  IN  \* parent is the object fetched before the del: when it
                      \* is the entry just removed, its content leaves with it
                      IF Has(fs1, parent_inode)
                      THEN Outcome(SetContent(fs1, parent_inode,
                                     CDel(Get(fs1, parent_inode).content, name)),
                                   cnt, "OK", 0)
                      ELSE Outcome(fs1, cnt, "OK", 0)

rename(fs, cnt, parent_inode_old, name_old, parent_inode_new, name_new) ==
    IF ~Has(fs, parent_inode_old) \/ ~Has(fs, parent_inode_new)
    THEN Outcome(fs, cnt, "ENOENT", 0)
    ELSE IF ~Get(fs, parent_inode_old).is_dir THEN Outcome(fs, cnt, "TypeError", 0)
    ELSE IF ~CHas(Get(fs, parent_inode_old).content, name_old)
    THEN Outcome(fs, cnt, "KeyError", 0)
    ELSE LET inode == CGet(Get(fs, parent_inode_old).content, name_old)
             fs1   == SetContent(fs, parent_inode_old,
                          CDel(Get(fs, parent_inode_old).content, name_old))
         IN  IF ~Has(fs1, inode) THEN Outcome(fs1, cnt, "ENOENT", 0)
             ELSE LET fs2 == [fs1 EXCEPT ![Idx(fs1, inode)].name = name_new]
                  IN  IF ~Get(fs2, parent_inode_new).is_dir
                      THEN Outcome(fs2, cnt, "TypeError", 0)
                      ELSE Outcome(SetContent(fs2, parent_inode_new,
                                     CSet(Get(fs2, parent_inode_new).content,
                                          name_new, inode)),
                                   cnt, "OK", 0)

\* The handlers that change nothing yield the error they end in, the
\* number they return (st_ino), the bytes they return and the directory
\* entries the transport accepted.
Reply(err, val, data, entries) ==
    [err |-> err, val |-> val, data |-> data, entries |-> entries]

getattr(fs, inode) ==
    IF ~Has(fs, inode) THEN Reply("ENOENT", 0, <<>>, <<>>)
    ELSE Reply("OK", Get(fs, inode).inode, <<>>, <<>>)

\* get_inode turns the KeyError of either subscript into ENOENT; a regular
\* parent's content is bytes, whose subscript by a name is a TypeError
lookup(fs, parent_inode, name) ==
    IF ~Has(fs, parent_inode) THEN Reply("ENOENT", 0, <<>>, <<>>)
    ELSE IF ~Get(fs, parent_inode).is_dir THEN Reply("TypeError", 0, <<>>, <<>>)
    ELSE IF ~CHas(Get(fs, parent_inode).content, name)
    THEN Reply("ENOENT", 0, <<>>, <<>>)
    ELSE getattr(fs, CGet(Get(fs, parent_inode).content, name))

opendir(fs, inode) ==
    IF ~Has(fs, inode) THEN Reply("ENOENT", 0, <<>>, <<>>)
    ELSE IF Get(fs, inode).is_dir THEN Reply("OK", inode, <<>>, <<>>)
    ELSE Reply("ENOTDIR", 0, <<>>, <<>>)

RECURSIVE ReaddirLoop(_, _, _)
\* the for loop of readdir over the filtered children: get_file, then
\* readdir_reply, which takes the entry while the reply buffer has room
ReaddirLoop(fs, childs, room) ==
    IF childs = <<>> THEN Reply("OK", 0, <<>>, <<>>)
    ELSE IF ~Has(fs, Head(childs)) THEN Reply("ENOENT", 0, <<>>, <<>>)
    ELSE IF room = 0 THEN Reply("OK", 0, <<>>, <<>>)
    ELSE LET rest == ReaddirLoop(fs, Tail(childs), room - 1)
         IN  IF rest.err # "OK" THEN rest
             ELSE Reply("OK", 0, <<>>,
                        <<<<Get(fs, Head(childs)).name, Head(childs)>>>>
                            \o rest.entries)

\* list(content.values()) keeps the insertion order; filter(i > off)
Childs(c, off) ==
    LET above == SelectSeq(c, LAMBDA pair : pair[2] > off)
    IN  [k \in DOMAIN above |-> above[k][2]]

readdir(fs, inode, off, room) ==
    IF ~Has(fs, inode) THEN Reply("ENOENT", 0, <<>>, <<>>)
    ELSE IF ~Get(fs, inode).is_dir THEN Reply("AttributeError", 0, <<>>, <<>>)
    ELSE ReaddirLoop(fs, Childs(Get(fs, inode).content, off), room)

\* data[offset:offset+length]; the subscript of a dict by a slice raises
\* TypeError up to Python 3.11 and KeyError from 3.12 on
SliceOfDict == {"TypeError", "KeyError"}

\* read returning everything from offset on, whatever the length asked
read_to_end(fs, inode, offset, length, raised) ==
    IF ~Has(fs, inode) THEN Reply("ENOENT", 0, <<>>, <<>>)
    ELSE IF Get(fs, inode).is_dir THEN Reply(raised, 0, <<>>, <<>>)
    ELSE Reply("OK", 0, SubSeq(Get(fs, inode).content, offset + 1,
                               Len(Get(fs, inode).content)), <<>>)

read(fs, inode, offset, length, raised) ==
    IF ~Has(fs, inode) THEN Reply("ENOENT", 0, <<>>, <<>>)
    ELSE IF Get(fs, inode).is_dir THEN Reply(raised, 0, <<>>, <<>>)
    ELSE LET data == Get(fs, inode).content
         IN  Reply("OK", 0,
                   SubSeq(data, offset + 1, Min(offset + length, Len(data))),
                   <<>>)

\* ---------------------------------------------------------------- pickle
RECURSIVE DumpPairs(_)
DumpPairs(c) ==
    IF c = <<>> THEN <<>> ELSE <<c[1][1], c[1][2]>> \o DumpPairs(Tail(c))

DumpFile(f) ==
    <<f.name, f.inode, f.parent, f.is_dir, f.size, Len(f.content)>>
        \o (IF f.is_dir THEN DumpPairs(f.content) ELSE f.content)

RECURSIVE DumpFiles(_)
DumpFiles(fs) ==
    IF fs = <<>> THEN <<>> ELSE DumpFile(Head(fs)) \o DumpFiles(Tail(fs))

\* pickle.dumps(self.files, 4): the stream of the FS object's slots
dumps(fs, cnt) == <<PickleProtocol, cnt, Len(fs)>> \o DumpFiles(fs)

RECURSIVE LoadPairs(_)
LoadPairs(b) ==
    IF b = <<>> THEN <<>> ELSE <<<<b[1], b[2]>>>> \o LoadPairs(SubSeq(b, 3, Len(b)))

RECURSIVE LoadFiles(_, _)
LoadFiles(b, n) ==
    IF n = 0 THEN <<>>
    ELSE LET k     == IF b[4] THEN 2 * b[6] ELSE b[6]
             items == SubSeq(b, 7, 6 + k)
             file  == [name |-> b[1], inode |-> b[2], parent |-> b[3],
                       is_dir |-> b[4], size |-> b[5],
                       content |-> IF b[4] THEN LoadPairs(items) ELSE items]
         IN  <<file>> \o LoadFiles(SubSeq(b, 7 + k, Len(b)), n - 1)

\* pickle.loads of a stream dumps wrote
loads(blob) ==
    [files |-> LoadFiles(SubSeq(blob, 4, Len(blob)), blob[3]),
     inodes_created |-> blob[2]]

\* what pickle.loads(pngdata.decode(png_file, False)) followed by
\* clean_files_without_parent raises for each state of the backing file:
\*   missing    no such file: open() raises FileNotFoundError
\*   truncated  the blob is empty or ends before the STOP opcode: EOFError
\*   garbage    the blob starts with no pickle opcode: UnpicklingError
\*   foreign    the pickle of an object of another shape, without the
\*              method or the slots line 121 uses: AttributeError
\*   pickled    a blob write_to_png wrote
LoadRaises(d) ==
    CASE d.kind = "missing"   -> "FileNotFoundError"
      [] d.kind = "truncated" -> "EOFError"
      [] d.kind = "garbage"   -> "UnpicklingError"
      [] d.kind = "foreign"   -> "AttributeError"
      [] d.kind = "pickled"   -> "none"

\* except (FileNotFoundError, AttributeError, pickle.UnpicklingError)
Caught == {"FileNotFoundError", "AttributeError", "UnpicklingError"}

write_to_png(fs, cnt) == [kind |-> "pickled", blob |-> dumps(fs, cnt)]

\* ---------------------------------------------------------------- state
NoExc == [type |-> "none", line |-> 0]

NoRet == [err |-> "OK", val |-> 0, data |-> <<>>, entries |-> <<>>]

BackingFiles ==
    {[kind |-> k, blob |-> <<>>] : k \in {"missing", "truncated", "garbage", "foreign"}}

\* the memory of a process that has not run pngFS(args) yet
Unstarted ==
    /\ files = <<>>
    /\ inodes_created = 0
    /\ task = "None"
    /\ loop = <<>>
    /\ save_at_exit = FALSE
    /\ exc = NoExc
    /\ loadExc = "none"
    /\ ret = NoRet
    /\ lastGiven = 0
    /\ arms = 0
    /\ fired = 0

Init ==
    /\ pc = "start"
    /\ disk \in BackingFiles
    /\ Unstarted

\* ---------------------------------------------------------- pngFS.__init__
\* main() up to pyfuse3.init: the try/except load, then the timer set-up.
\* Assigning write_timer.start is an assignment to a name that is not a slot.
Construct(flag) ==
    /\ pc = "start"
    /\ LET raised == LoadRaises(disk)
           loaded == loads(disk.blob)
       IN  /\ loadExc' = raised
           /\ save_at_exit' = flag
           /\ IF raised \notin Caught \cup {"none"}
              THEN /\ pc' = "crashed"
                   /\ exc' = [type |-> raised, line |-> 120]
                   /\ UNCHANGED <<files, inodes_created, lastGiven>>
              ELSE /\ IF raised = "none"
                      THEN /\ files' = clean_files_without_parent(loaded.files)
                           /\ inodes_created' = loaded.inodes_created
                           /\ lastGiven' = 0
                      ELSE /\ files' = FS_init.files
                           /\ inodes_created' = FS_init.inodes_created
                           /\ lastGiven' = ROOT_INODE
                   /\ IF flag /\ "start" \notin SingleShotTimerSlots
                      THEN /\ pc' = "crashed"
                           /\ exc' = [type |-> "AttributeError", line |-> 128]
                      ELSE /\ pc' = "serving"
                           /\ exc' = NoExc
    /\ UNCHANGED <<task, loop, disk, ret, arms, fired>>

\* ------------------------------------------------------ operation handlers
\* what a handler call leaves behind; r is the handler's Outcome
Handled(r) ==
    /\ files' = r.files
    /\ inodes_created' = r.inodes_created
    /\ ret' = [err |-> r.err, val |-> r.val, data |-> <<>>, entries |-> <<>>]
    /\ IF r.armed
       THEN /\ task' = start(task, loop).task
            /\ loop' = start(task, loop).loop
            /\ arms' = IF task = "None" THEN 1 ELSE Min(arms + 1, MaxBurst)
            /\ fired' = IF task = "None" THEN 0 ELSE fired
       ELSE UNCHANGED <<task, loop, arms, fired>>
    /\ UNCHANGED <<pc, save_at_exit, disk, exc, loadExc>>

CanAdd == inodes_created <= MaxInode

Mkdir(inode_parent, name) ==
    /\ pc = "serving"
    /\ CanAdd
    /\ Handled(mkdir(files, inodes_created, inode_parent, name))
    /\ lastGiven' = inodes_created

Create(inode_parent, name) ==
    /\ pc = "serving"
    /\ CanAdd
    /\ Handled(create(files, inodes_created, inode_parent, name))
    /\ lastGiven' = inodes_created

Write(inode, offset, buf) ==
    /\ pc = "serving"
    /\ Has(files, inode) /\ ~Get(files, inode).is_dir
            => Len(Splice(Get(files, inode).content, offset, buf)) <= MaxLen
    /\ Handled(write(files, inodes_created, inode, offset, buf))
    /\ UNCHANGED lastGiven

Rmdir(parent_inode, name) ==
    /\ pc = "serving"
    /\ Handled(rmdir(files, inodes_created, parent_inode, name))
    /\ UNCHANGED lastGiven

Unlink(parent_inode, name) ==
    /\ pc = "serving"
    /\ Handled(unlink(files, inodes_created, parent_inode, name))
    /\ UNCHANGED lastGiven

Rename(parent_inode_old, name_old, parent_inode_new, name_new) ==
    /\ pc = "serving"
    /\ Handled(rename(files, inodes_created, parent_inode_old, name_old,
                      parent_inode_new, name_new))
    /\ UNCHANGED lastGiven

\* a handler that changes nothing; r is its Reply
Answered(r) ==
    /\ pc = "serving"
    /\ ret' = r
    /\ UNCHANGED <<pc, files, inodes_created, task, loop, save_at_exit, disk,
                   exc, loadExc, lastGiven, arms, fired>>

Getattr(inode) == Answered(getattr(files, inode))

Lookup(parent_inode, name) == Answered(lookup(files, parent_inode, name))

Opendir(inode) == Answered(opendir(files, inode))

Readdir(inode, off, room) == Answered(readdir(files, inode, off, room))

Read(inode, offset, length) ==
    \E raised \in SliceOfDict : Answered(read(files, inode, offset, length, raised))

\* ------------------------------------------------------------ event loop
\* time passes while every sleeping _run still has time left
Tick ==
    /\ pc = "serving"
    /\ loop # <<>>
    /\ \A i \in DOMAIN loop : loop[i] > 0
    /\ loop' = [i \in DOMAIN loop |-> loop[i] - 1]
    /\ UNCHANGED <<pc, files, inodes_created, task, save_at_exit, disk, exc,
                   loadExc, ret, lastGiven, arms, fired>>

\* SingleShotTimer._run after its sleep: the callback, then _task = None
Fire ==
    /\ pc = "serving"
    /\ \E i \in DOMAIN loop :
          /\ loop[i] = 0
          /\ loop' = RemoveAt(loop, i)
    /\ disk' = write_to_png(files, inodes_created)
    /\ task' = "None"
    /\ fired' = fired + 1
    /\ UNCHANGED <<pc, files, inodes_created, save_at_exit, exc, loadExc, ret,
                   lastGiven, arms>>

\* ------------------------------------------------------------- main()
\* main() with the two calls after asyncio.run in the other order
ShutdownSavesFirst ==
    /\ pc = "serving"
    /\ pc' = "exited"
    /\ loop' = <<>>
    /\ task' = IF task = "pending" THEN "cancelled" ELSE task
    /\ disk' = write_to_png(files, inodes_created)
    /\ files' = clean_files_without_parent(files)
    /\ UNCHANGED <<inodes_created, save_at_exit, exc, loadExc, ret, lastGiven,
                   arms, fired>>

\* KeyboardInterrupt ends asyncio.run, which cancels the tasks still alive;
\* then clean_files_without_parent and write_to_png
Shutdown ==
    /\ pc = "serving"
    /\ pc' = "exited"
    /\ loop' = <<>>
    /\ task' = IF task = "pending" THEN "cancelled" ELSE task
    /\ files' = clean_files_without_parent(files)
    /\ disk' = write_to_png(files', inodes_created)
    /\ UNCHANGED <<inodes_created, save_at_exit, exc, loadExc, ret, lastGiven,
                   arms, fired>>

Reset ==
    /\ pc' = "start"
    /\ files' = <<>>
    /\ inodes_created' = 0
    /\ task' = "None"
    /\ loop' = <<>>
    /\ save_at_exit' = FALSE
    /\ exc' = NoExc
    /\ loadExc' = "none"
    /\ ret' = NoRet
    /\ lastGiven' = 0
    /\ arms' = 0
    /\ fired' = 0
    /\ UNCHANGED disk

\* the program is run again after it exited or crashed
Restart ==
    /\ pc \in {"exited", "crashed"}
    /\ Reset

\* the process is killed while it serves: nothing is saved
Kill ==
    /\ pc = "serving"
    /\ Reset

\* the calls of the handlers that change the table, with their arguments
\* drawn from I and N
Calls(I, N) ==
    \/ \E p \in I, n \in N : Mkdir(p, n)
    \/ \E p \in I, n \in N : Create(p, n)
    \/ \E i \in I, o \in LifeOffsets, b \in LifeBuffers : Write(i, o, b)
    \/ \E p \in I, n \in N : Rmdir(p, n)
    \/ \E p \in I, n \in N : Unlink(p, n)
    \/ \E p \in I, n \in N, q \in I, m \in N : Rename(p, n, q, m)

\* the whole life of the program: runs, timer, shutdowns and restarts
Next ==
    \/ \E flag \in BOOLEAN : Construct(flag)
    \/ Calls(LifeInodes, LifeNames)
    \/ Tick
    \/ Fire
    \/ Shutdown
    \/ Restart
    \/ Kill

Spec == Init /\ [][Next]_vars

\* one run on a fresh table, the backing file missing, up to its shutdown:
\* every handler call with every argument
InitFS ==
    /\ disk = [kind |-> "missing", blob |-> <<>>]
    /\ pc = "serving"
    /\ files = FS_init.files
    /\ inodes_created = FS_init.inodes_created
    /\ lastGiven = ROOT_INODE
    /\ task = "None"
    /\ loop = <<>>
    /\ save_at_exit = FALSE
    /\ exc = NoExc
    /\ loadExc = "FileNotFoundError"
    /\ ret = NoRet
    /\ arms = 0
    /\ fired = 0

NextFS ==
    \/ Calls(InodeArgs, Names)
    \/ Shutdown

SpecFS == InitFS /\ [][NextFS]_vars

\* one run on a fresh table in which files are made under the root and
\* writes and reads arrive, of every buffer, at every offset, for no inode,
\* the root and the entry made first
NextIO ==
    \/ \E n \in Names : Create(ROOT_INODE, n)
    \/ \E n \in LifeNames : Mkdir(ROOT_INODE, n)
    \/ \E i \in LifeInodes, o \in Offsets, b \in Buffers : Write(i, o, b)
    \/ \E i \in LifeInodes, o \in Offsets, l \in Lengths : Read(i, o, l)

SpecIO == InitFS /\ [][NextIO]_vars

\* one run on a fresh table with its timer and no shutdown.  The event loop
\* of asyncio runs a task whose sleep is over, and time passes: Tick and
\* Fire, each of which changes loop, are taken if they stay enabled.
NextTimer ==
    \/ Calls(LifeInodes, LifeNames)
    \/ Tick
    \/ Fire

SpecTimer == InitFS /\ [][NextTimer]_vars /\ WF_loop(Tick) /\ WF_loop(Fire)

\* --------------------------------------------- the calls a kernel issues
\* The kernel's VFS looks names up before it calls: it names only entries it
\* reached from the root, makes only names that do not exist yet, removes
\* only names that exist (rmdir a directory, unlink a regular file), and
\* never moves a directory into itself.
IsDir(fs, ino) == Has(fs, ino) /\ Get(fs, ino).is_dir

RECURSIVE Under(_, _, _, _)
\* x is top or is reached from top through the content maps
Under(fs, top, x, depth) ==
    \/ x = top
    \/ /\ depth > 0
       /\ IsDir(fs, top)
       /\ \E k \in DOMAIN Get(fs, top).content :
             LET child == Get(fs, top).content[k][2]
             IN  Has(fs, child) /\ Under(fs, child, x, depth - 1)

Known(ino) == Has(files, ino) /\ Under(files, ROOT_INODE, ino, Len(files))

Present(p, n) ==
    /\ Known(p) /\ IsDir(files, p)
    /\ CHas(Get(files, p).content, n)
    /\ Has(files, CGet(Get(files, p).content, n))

Free(p, n) == Known(p) /\ IsDir(files, p) /\ ~CHas(Get(files, p).content, n)

Child(p, n) == Get(files, CGet(Get(files, p).content, n))

VfsMkdir(p, n) == Free(p, n) /\ Mkdir(p, n)

VfsCreate(p, n) == Free(p, n) /\ Create(p, n)

VfsWrite(i, o, b) == Known(i) /\ ~IsDir(files, i) /\ Write(i, o, b)

VfsRmdir(p, n) == Present(p, n) /\ Child(p, n).is_dir /\ Rmdir(p, n)

VfsUnlink(p, n) == Present(p, n) /\ ~Child(p, n).is_dir /\ Unlink(p, n)

VfsGetattr(i) == Known(i) /\ Getattr(i)

VfsLookup(p, n) == Known(p) /\ IsDir(files, p) /\ Lookup(p, n)

VfsOpendir(i) == Known(i) /\ IsDir(files, i) /\ Opendir(i)

\* the offset is 0 or the position of an entry readdir replied
VfsReaddir(i, off, room) ==
    /\ Known(i) /\ IsDir(files, i)
    /\ off = 0 \/ \E k \in DOMAIN Get(files, i).content :
                      Get(files, i).content[k][2] = off
    /\ Readdir(i, off, room)

VfsRead(i, o, l) == Known(i) /\ ~IsDir(files, i) /\ Read(i, o, l)

VfsRename(p, n, q, m) ==
    /\ Present(p, n)
    /\ Free(q, m)
    /\ ~Under(files, Child(p, n).inode, q, Len(files))
    /\ Rename(p, n, q, m)

NextVFS ==
    \/ \E p \in InodeArgs, n \in Names : VfsMkdir(p, n)
    \/ \E p \in InodeArgs, n \in Names : VfsCreate(p, n)
    \/ \E i \in InodeArgs, o \in Offsets, b \in Buffers : VfsWrite(i, o, b)
    \/ \E p \in InodeArgs, n \in Names : VfsRmdir(p, n)
    \/ \E p \in InodeArgs, n \in Names : VfsUnlink(p, n)
    \/ \E p \in InodeArgs, n \in Names, q \in InodeArgs, m \in Names :
          VfsRename(p, n, q, m)
    \/ \E i \in InodeArgs : VfsGetattr(i)
    \/ \E p \in InodeArgs, n \in Names : VfsLookup(p, n)
    \/ \E i \in InodeArgs : VfsOpendir(i)
    \/ \E i \in InodeArgs, off \in InodeArgs, room \in Rooms : VfsReaddir(i, off, room)
    \/ \E i \in InodeArgs, o \in Offsets, l \in Lengths : VfsRead(i, o, l)
    \/ Shutdown

\* one run on a fresh table in which only such calls arrive
SpecVFS == InitFS /\ [][NextVFS]_vars

\* ================================================================ claims
NonRoot(fs) == {i \in DOMAIN fs : fs[i].inode # ROOT_INODE}

\* the inodes of the non-root entries whose parent is not in the table
Orphans(fs) == {fs[i].inode : i \in {j \in NonRoot(fs) : ~Has(fs, fs[j].parent)}}

LinkedBothWays(fs) ==
    /\ \A i \in NonRoot(fs) :
          /\ IsDir(fs, fs[i].parent)
          /\ CHas(Get(fs, fs[i].parent).content, fs[i].name)
          /\ CGet(Get(fs, fs[i].parent).content, fs[i].name) = fs[i].inode
    /\ \A i \in DOMAIN fs :
          fs[i].is_dir =>
             \A k \in DOMAIN fs[i].content :
                /\ Has(fs, fs[i].content[k][2])
                /\ Get(fs, fs[i].content[k][2]).parent = fs[i].inode
                /\ Get(fs, fs[i].content[k][2]).name = fs[i].content[k][1]

\* C1: after every completed mutating operation the content maps and the
\* parent links agree in both directions: every non-root entry is listed
\* under its name in its parent's content map, and every name->inode pair of
\* a content map names an entry of the table with that parent and that name.
C1_LinksAgree == pc = "serving" => LinkedBothWays(files)

\* C2: in every state reached from a fresh or a loaded-and-repaired table by
\* handler calls, the parent of every non-root entry is in the table and is
\* a Directory.
C2_ParentIsDirectory ==
    pc = "serving" => \A i \in NonRoot(files) : IsDir(files, files[i].parent)

\* C3: whatever the outcome of the mkdir and create calls, the inode number
\* add_file gives to an entry it registers is greater than the one it gave
\* before: the numbers strictly increase and none is given twice.
C3_InodesIncrease ==
    [][(\E p \in InodeArgs, n \in Names : Mkdir(p, n) \/ Create(p, n))
          => inodes_created > lastGiven]_vars

\* C4: with scheduling enabled, a burst of mutating calls, each arriving
\* while the timer armed by the one before is still pending, leads to exactly
\* one write_to_png, after the last call: while an arming of the burst is
\* pending nothing has been saved for it, and once none is pending exactly
\* one save has been made for it.
C4_OneSavePerBurst ==
    pc = "serving" =>
       /\ loop # <<>> => fired = 0 /\ task = "pending" /\ Len(loop) = 1
       /\ (loop = <<>> /\ arms > 0) => fired = 1 /\ task = "None"

\* a burst of at least two calls has been saved
C4_BurstSaved ==
    pc = "serving" /\ arms >= 2 /\ loop = <<>> /\ fired = 1

\* C5: at shutdown clean_files_without_parent and then write_to_png run,
\* whatever the state of the timer: once main() is through, no entry of the
\* table lacks its parent and the backing file holds the pickle of the
\* final table.
C5_ShutdownSaves ==
    pc = "exited" =>
       /\ Orphans(files) = {}
       /\ disk = write_to_png(files, inodes_created)
       /\ loads(disk.blob).inodes_created = inodes_created
       /\ Keys(loads(disk.blob).files) = Keys(files)

\* the shutdown came while the timer was pending, on a table that holds
\* more than the root
C5_ShutdownWhilePending ==
    pc = "exited" /\ task = "cancelled" /\ Len(files) > 1

\* C6: with save_at_exit set the handler starts up and serves, no mutating
\* operation arms the timer or saves, and the only save is the one at
\* shutdown.  (A failure of the load itself is C7's matter.)
C6_SaveAtExitServes ==
    (save_at_exit /\ exc.line # 120) =>
       /\ pc \in {"serving", "exited"}
       /\ task = "None"
       /\ loop = <<>>
       /\ fired = 0

\* C7: the load at startup never propagates an error: whenever decoding or
\* unpickling the backing file fails, pngFS.__init__ goes on with a fresh
\* table that holds only the root.
C7_LoadNeverPropagates ==
    [][(pc = "start" /\ pc' # "start" /\ loadExc' # "none")
          => /\ exc'.line # 120
             /\ files' = FS_init.files
             /\ inodes_created' = FS_init.inodes_created]_vars

\* C8, as claimed: one call of clean_files_without_parent removes exactly
\* the non-root entries whose parent is absent at the time of the call.
C8_RemovesExactlyOrphans ==
    pc = "serving" =>
       Keys(clean_files_without_parent(files)) = Keys(files) \ Orphans(files)

\* C8, amended: one call of clean_files_without_parent removes every
\* non-root entry whose parent is absent at the time of the call, and with
\* them the entries whose parent the same pass removed before it reached
\* them; it never removes the root, never removes an entry whose parent is
\* still in the table when the call returns, and leaves the entries it
\* keeps as they were.
C8_RemovesOrphansAndTheirChildren ==
    pc = "serving" =>
       LET after   == clean_files_without_parent(files)
           removed == Keys(files) \ Keys(after)
       IN  /\ Orphans(files) \subseteq removed
           /\ Keys(after) \subseteq Keys(files)
           /\ \A i \in removed :
                 i # ROOT_INODE /\ ~Has(after, Get(files, i).parent)
           /\ \A i \in Keys(after) : Get(after, i) = Get(files, i)

\* a table from which the call removes an entry whose parent was present
C8_ChildOfOrphanRemoved ==
    /\ pc = "serving"
    /\ \E i \in Keys(files) \ Keys(clean_files_without_parent(files)) :
          Has(files, Get(files, i).parent)

\* C9: clean_files_without_parent is idempotent on every table the handlers
\* or a load produce: after one call no non-root entry lacks its parent, and
\* a second call removes nothing.
C9_RepairIdempotent ==
    pc = "serving" =>
       LET once == clean_files_without_parent(files)
       IN  /\ Orphans(once) = {}
           /\ Keys(clean_files_without_parent(once)) = Keys(once)
           /\ Len(clean_files_without_parent(once)) = Len(once)

\* a table, loaded from the backing file, from which the first call removes
\* an orphan and its child
C9_RepairRemovedTwo ==
    /\ pc = "serving"
    /\ loadExc = "none"
    /\ Len(clean_files_without_parent(files)) + 2 <= Len(files)

\* C10: a save followed by a startup load gives back the table: the same
\* entries, each with the same name, kind, content and parent.
C10_SaveLoadRoundTrip ==
    pc = "serving" =>
       LET saved  == write_to_png(files, inodes_created)
           loaded == clean_files_without_parent(loads(saved.blob).files)
       IN  /\ Keys(loaded) = Keys(files)
           /\ \A i \in Keys(files) :
                 /\ Get(loaded, i).name = Get(files, i).name
                 /\ Get(loaded, i).is_dir = Get(files, i).is_dir
                 /\ Get(loaded, i).content = Get(files, i).content
                 /\ Get(loaded, i).parent = Get(files, i).parent

Regular(fs) == {fs[i].inode : i \in {j \in DOMAIN fs : ~fs[j].is_dir}}

\* C11: for every regular file, whatever its content, and every buffer,
\* write(inode, 0, buf) followed by read(inode, 0, len(buf)) returns
\* exactly buf.
C11_WriteThenRead ==
    pc = "serving" =>
       \A i \in Regular(files), buf \in Buffers, raised \in SliceOfDict :
          LET w == write(files, inodes_created, i, 0, buf)
              r == read(w.files, i, 0, Len(buf), raised)
          IN  w.err = "OK" /\ r.err = "OK" /\ r.data = buf

\* a read gave back the first byte of a file that holds two different
\* bytes: reading back less than the file holds
C11_ReadBackFirstByte ==
    /\ pc = "serving"
    /\ ret.err = "OK"
    /\ \E i \in Regular(files) :
          /\ Len(Get(files, i).content) = 2
          /\ Get(files, i).content[1] # Get(files, i).content[2]
          /\ ret.data = <<Get(files, i).content[1]>>

\* C12: write(inode, offset, buf) on a regular file of content c leaves the
\* first min(offset, len(c)) bytes of c, then buf, then the bytes of c from
\* offset + len(buf) on; it sets size to the new length and returns
\* len(buf).  A write past the end puts buf right after c, without filler.
C12_WriteSplices ==
    pc = "serving" =>
       \A i \in Regular(files), o \in Offsets, b \in Buffers :
          LET w    == write(files, inodes_created, i, o, b)
              c    == Get(files, i).content
              n    == Get(w.files, i).content
              keep == Min(o, Len(c))
              tail == IF Len(c) > o + Len(b) THEN Len(c) - o - Len(b) ELSE 0
          IN  /\ w.err = "OK"
              /\ w.val = Len(b)
              /\ Len(n) = keep + Len(b) + tail
              /\ \A k \in 1 .. keep : n[k] = c[k]
              /\ \A k \in 1 .. Len(b) : n[keep + k] = b[k]
              /\ \A k \in 1 .. tail : n[keep + Len(b) + k] = c[o + Len(b) + k]
              /\ o > Len(c) => n = c \o b
              /\ Get(w.files, i).size = Len(n)

\* a write of one byte returned 1 and left a file of two different bytes
C12_OneByteWritten ==
    /\ pc = "serving"
    /\ ret.err = "OK"
    /\ ret.val = 1
    /\ \E i \in Regular(files) :
          /\ Get(files, i).size = 2
          /\ Get(files, i).content[1] # Get(files, i).content[2]

Dirs(fs) == {fs[i].inode : i \in {j \in DOMAIN fs : fs[j].is_dir}}

\* C13: for any directory parent and any name, mkdir(parent, name) followed
\* by rmdir(parent, name) on the new, still empty directory leaves the
\* content map of parent as it was before the mkdir.
C13_MkdirThenRmdir ==
    (pc = "serving" /\ CanAdd) =>
       \A p \in Dirs(files), n \in Names :
          LET made    == mkdir(files, inodes_created, p, n)
              removed == rmdir(made.files, made.inodes_created, p, n)
          IN  /\ made.err = "OK"
              /\ removed.err = "OK"
              /\ Get(removed.files, p).content = Get(files, p).content

\* C14: rmdir of a directory whose content map is not empty fails with
\* ENOTEMPTY, removes nothing from the table or from the parent's content
\* map, and does not arm the timer.
C14_RmdirNotEmpty ==
    pc = "serving" =>
       \A p \in Dirs(files), n \in Names :
          (/\ CHas(Get(files, p).content, n)
           /\ IsDir(files, CGet(Get(files, p).content, n))
           /\ Get(files, CGet(Get(files, p).content, n)).content # <<>>) =>
             LET r == rmdir(files, inodes_created, p, n)
             IN  /\ r.err = "ENOTEMPTY"
                 /\ ~r.armed
                 /\ Keys(r.files) = Keys(files)
                 /\ r.files = files
                 /\ r.inodes_created = inodes_created

\* an rmdir was refused while the root lists a directory that lists an
\* entry of the table
C14_RmdirRefused ==
    /\ pc = "serving"
    /\ ret.err = "ENOTEMPTY"
    /\ \E k \in DOMAIN Get(files, ROOT_INODE).content :
          LET d == Get(files, ROOT_INODE).content[k][2]
          IN  /\ IsDir(files, d)
              /\ d # ROOT_INODE
              /\ \E j \in DOMAIN Get(files, d).content :
                    Has(files, Get(files, d).content[j][2])

\* the pair names no entry: the parent is unknown, or it is a directory
\* whose content map lacks the name
NoSuchName(fs, p, n) ==
    \/ ~Has(fs, p)
    \/ Get(fs, p).is_dir /\ ~CHas(Get(fs, p).content, n)

\* C15: every handler given an inode that is not in the table, or a
\* (parent, name) pair whose parent is unknown or whose name is absent from
\* the parent's content map, fails with ENOENT and with nothing else:
\* getattr, lookup, opendir, readdir, read, write, rmdir, unlink, rename.
C15_AbsentIsENOENT ==
    pc = "serving" =>
       /\ \A i \in InodeArgs \ Keys(files) :
             /\ getattr(files, i).err = "ENOENT"
             /\ opendir(files, i).err = "ENOENT"
             /\ \A off \in InodeArgs, room \in Rooms :
                   readdir(files, i, off, room).err = "ENOENT"
             /\ \A o \in Offsets, l \in Lengths, raised \in SliceOfDict :
                   read(files, i, o, l, raised).err = "ENOENT"
             /\ \A o \in Offsets, b \in Buffers :
                   write(files, inodes_created, i, o, b).err = "ENOENT"
       /\ \A p \in InodeArgs, n \in Names :
             NoSuchName(files, p, n) =>
                /\ lookup(files, p, n).err = "ENOENT"
                /\ rmdir(files, inodes_created, p, n).err = "ENOENT"
                /\ unlink(files, inodes_created, p, n).err = "ENOENT"
                /\ \A q \in InodeArgs, m \in Names :
                      rename(files, inodes_created, p, n, q, m).err = "ENOENT"
       /\ \A p \in Keys(files), n \in Names, q \in InodeArgs \ Keys(files), m \in Names :
             rename(files, inodes_created, p, n, q, m).err = "ENOENT"

\* a call has changed the table or armed the timer since the run began
Mutated ==
    \/ arms > 0
    \/ inodes_created # FS_init.inodes_created
    \/ Len(files) # Len(FS_init.files)

\* the table with the two kinds of content apart: the pairs of a
\* directory, the bytes of a regular file
Typed(fs) ==
    [i \in DOMAIN fs |->
        [name |-> fs[i].name, inode |-> fs[i].inode, parent |-> fs[i].parent,
         is_dir |-> fs[i].is_dir, size |-> fs[i].size,
         pairs |-> IF fs[i].is_dir THEN fs[i].content ELSE <<>>,
         bytes |-> IF fs[i].is_dir THEN <<>> ELSE fs[i].content]]

\* the timer is idle and the backing file holds the pickle of the table
Saved ==
    /\ task = "None"
    /\ loop = <<>>
    /\ disk.kind = "pickled"
    /\ Len(disk.blob) = Len(dumps(files, inodes_created))
    /\ loads(disk.blob).inodes_created = inodes_created
    /\ Typed(loads(disk.blob).files) = Typed(files)

\* what a handler call can change
seen == <<Typed(files), inodes_created, task, loop, arms, fired, ret, lastGiven>>

\* a call of a mutating handler arrives: the steps of a run that are
\* neither the clock's nor the timer's
Arrives == ~(Tick \/ Fire)

\* C16: with scheduling enabled, after any mutating operation, if no further
\* mutating operation arrives, write_to_png is eventually called, the timer
\* is idle again and the blob written is the pickle of the table as it is:
\* either calls of the mutating handlers keep arriving, or from some point
\* on whatever the calls changed is saved and the timer is idle.  (A later
\* call arms the timer again and is covered in the same way.)
C16_QuietLeadsToSave ==
    []<><<Arrives>>_seen \/ <>[](Mutated => Saved)

\* C17: a handler call that ends in an error leaves the table, the content
\* maps, the names, the parents and the allocation counter exactly as they
\* were before the call.  (Every step that leaves the program serving is a
\* handler call.)
C17_ErrorChangesNothing ==
    [][(pc' = "serving" /\ ret'.err # "OK") =>
          /\ inodes_created' = inodes_created
          /\ Len(files') = Len(files)
          /\ files' = files]_vars

\* C18: clean_files_without_parent never removes an entry that is reached
\* from the root through the content maps; after it, every name->inode pair
\* of the content maps of the directories that remain names an inode that
\* is still in the table.
C18_RepairKeepsReachable ==
    pc = "serving" =>
       LET after == clean_files_without_parent(files)
       IN  /\ \A i \in Keys(files) :
                 Under(files, ROOT_INODE, i, Len(files)) => Has(after, i)
           /\ \A d \in Dirs(after) :
                 \A k \in DOMAIN Get(after, d).content :
                    Has(after, Get(after, d).content[k][2])

RECURSIVE Listings(_, _, _)
\* what listing a directory can yield from offset off on: each readdir
\* call's reply buffer has room for some of the entries left, and the next
\* call's offset is the position of the last entry the call before it
\* handed over; the listing ends with the call that hands over nothing
Listings(fs, inode, off) ==
    LET left == readdir(fs, inode, off, Len(Get(fs, inode).content)).entries
    IN  IF left = <<>> THEN {<<>>}
        ELSE UNION {
               LET got == readdir(fs, inode, off, room).entries
               IN  {got \o more : more \in Listings(fs, inode, got[Len(got)][2])}
               : room \in 1 .. Len(left)}

\* C19: listing a directory by repeated readdir calls, the first at offset
\* 0, the transport free to stop each call early, each next call's offset
\* the position of the last entry accepted, with no mutation in between,
\* yields every child of the directory exactly once.
C19_ListingComplete ==
    pc = "serving" =>
       \A d \in Dirs(files) :
          \A listing \in Listings(files, d, 0) :
             /\ Len(listing) = Len(Get(files, d).content)
             /\ \A k \in DOMAIN Get(files, d).content :
                   \E j \in DOMAIN listing :
                      listing[j][2] = Get(files, d).content[k][2]

\* C20: unlink(parent, name) on a name the parent's content map holds
\* removes exactly the entry named, of whatever kind, from the content map
\* and from the table, arms the timer, and leaves every other entry and
\* the counter as they were; the children of an unlinked directory stay in
\* the table.
C20_UnlinkRemovesOne ==
    pc = "serving" =>
       \A p \in Dirs(files), n \in Names :
          CHas(Get(files, p).content, n) =>
             LET inode == CGet(Get(files, p).content, n)
                 r     == unlink(files, inodes_created, p, n)
             IN  /\ r.err = "OK"
                 /\ r.armed
                 /\ r.inodes_created = inodes_created
                 /\ Has(files, inode)
                 /\ Keys(r.files) = Keys(files) \ {inode}
                 /\ \A i \in Keys(r.files) \ {p} : Get(r.files, i) = Get(files, i)
                 /\ p # inode =>
                       /\ Get(r.files, p).content = CDel(Get(files, p).content, n)
                       /\ Get(r.files, p).name = Get(files, p).name
                       /\ Get(r.files, p).parent = Get(files, p).parent

====
